---------------------------- MODULE Spec2Model ----------------------------
(***************************************************************************)
(* Model of the undo-tree editor extension (src/src/extension.ts): the     *)
(* per-file tracking state, the debounced push of local edits, the poll /  *)
(* apply / acknowledge cycle for remote changes, and patch inversion.      *)
(*                                                                         *)
(* Texts are sequences of one-character strings.  The diff-match-patch     *)
(* library the extension calls is modelled by the operators of the first   *)
(* part of the module, named as in the library.                            *)
(***************************************************************************)
EXTENDS Integers, Sequences, FiniteSets, TLC

(***************************************************************************)
(* Bounds of the model.                                                    *)
(***************************************************************************)
\* longest text the user types
MaxLen == 1
\* longest text a change received from the remote authority may produce
MaxText == 2
\* longest edge (left or right of the fixed middle) of a codec input text
MaxEdge == 2
\* FileState objects ever created
MaxStates == 1
\* initializeFileState calls in flight
MaxInits == 1
\* sendDeltaToServer calls awaiting the server
MaxPush == 2
\* pollAndApplyChanges calls in flight
MaxPolls == 1
\* nodes of the remote graph
MaxNodes == 2
\* changes the remote authority holds for the client
MaxChanges == 2
\* edits the user makes
MaxEdits == 3
\* changes the remote authority issues
MaxMoves == 2
\* the same bounds where the file is closed, opened and tracked again
WideStates == 2
WideInits == 1
WideNodes == 3
WideEdits == 1
WideMoves == 2
\* the same bounds where tracking is requested again before it is enabled
RaceStates == 2
RaceInits == 2
RaceNodes == 2
RaceEdits == 1
RaceMoves == 2
\* files, ticks of the poller and failed cycles where the poller is seen
\* over several files
MaxFiles == 2
MaxTicks == 2
MaxErrors == 2

Chars == {"a", "b"}

TextsUpTo(n) == UNION {[1..k -> Chars] : k \in 0..n}

Texts == TextsUpTo(MaxLen)

(***************************************************************************)
(* Library constants (diff-match-patch defaults).                          *)
(***************************************************************************)
DIFF_DELETE == -1
DIFF_INSERT == 1
DIFF_EQUAL == 0
Patch_Margin == 4
Match_MaxBits == 32
Match_Distance == 1000
\* Match_Threshold = 0.5, kept as the fraction Match_ThresholdNum / Match_ThresholdDen
Match_ThresholdNum == 1
Match_ThresholdDen == 2

(***************************************************************************)
(* JavaScript string primitives on sequences (0-based offsets).            *)
(***************************************************************************)
Min(a, b) == IF a <= b THEN a ELSE b
Max(a, b) == IF a >= b THEN a ELSE b
Abs(a) == IF a >= 0 THEN a ELSE -a

Clamp(i, n) == Max(0, Min(i, n))

\* String.prototype.substring(a, b)
substring(t, a, b) ==
    LET lo == Clamp(Min(a, b), Len(t))
        hi == Clamp(Max(a, b), Len(t))
    IN  SubSeq(t, lo + 1, hi)

\* String.prototype.substring(a)
substringFrom(t, a) == substring(t, a, Len(t))

\* String.prototype.indexOf(pattern, from); -1 when absent
indexOfFrom(t, p, from) ==
    LET f == Clamp(from, Len(t))
        S == {i \in f..(Len(t) - Len(p)) : substring(t, i, i + Len(p)) = p}
    IN  IF S = {} THEN -1 ELSE CHOOSE i \in S : \A j \in S : i <= j

indexOf(t, p) == indexOfFrom(t, p, 0)

\* String.prototype.lastIndexOf(pattern); -1 when absent
lastIndexOf(t, p) ==
    LET S == {i \in 0..(Len(t) - Len(p)) : substring(t, i, i + Len(p)) = p}
    IN  IF S = {} THEN -1 ELSE CHOOSE i \in S : \A j \in S : i >= j

Reverse(s) == [i \in 1..Len(s) |-> s[Len(s) + 1 - i]]

\* e, once v has been computed (the accumulator of a loop is computed before
\* the next round starts)
Having(v, e) == CASE {v} # {} -> e

RECURSIVE Flatten(_)
Flatten(ss) == IF ss = <<>> THEN <<>> ELSE Head(ss) \o Flatten(Tail(ss))

(***************************************************************************)
(* diff_main: the edit script from text1 to text2, a sequence of           *)
(* <<op, text>> pairs.                                                     *)
(***************************************************************************)
diff_commonPrefix(t1, t2) ==
    LET n == Min(Len(t1), Len(t2))
        S == {k \in 0..n : substring(t1, 0, k) = substring(t2, 0, k)}
    IN  CHOOSE k \in S : \A j \in S : k >= j

diff_commonSuffix(t1, t2) ==
    LET n == Min(Len(t1), Len(t2))
        S == {k \in 0..n : substringFrom(t1, Len(t1) - k) = substringFrom(t2, Len(t2) - k)}
    IN  CHOOSE k \in S : \A j \in S : k >= j

\* merge pass of diff_cleanupMerge: empty diffs are dropped and adjacent
\* diffs of one kind are joined
RECURSIVE diff_cleanupMerge(_)
diff_cleanupMerge(diffs) ==
    IF diffs = <<>> THEN <<>>
    ELSE LET d == Head(diffs)
             rest == diff_cleanupMerge(Tail(diffs))
         IN  IF d[2] = <<>> THEN rest
             ELSE IF rest # <<>> /\ rest[1][1] = d[1]
                  THEN << <<d[1], d[2] \o rest[1][2]>> >> \o Tail(rest)
                  ELSE <<d>> \o rest

\* the longest common substring of t1 and t2 as <<length, start in t1, start in t2>>
\* (the first in t1, then the first in t2): the split point of diff_compute
CommonMiddle(t1, t2) ==
    LET C == {c \in (0..Len(t1)) \X (0..Len(t1)) \X (0..Len(t2)) :
                 /\ c[1] >= 1
                 /\ c[2] + c[1] <= Len(t1)
                 /\ c[3] + c[1] <= Len(t2)
                 /\ substring(t1, c[2], c[2] + c[1]) = substring(t2, c[3], c[3] + c[1])}
        Better(c, e) == \/ c[1] > e[1]
                        \/ c[1] = e[1] /\ c[2] < e[2]
                        \/ c[1] = e[1] /\ c[2] = e[2] /\ c[3] <= e[3]
    IN  IF C = {} THEN <<0, 0, 0>> ELSE CHOOSE c \in C : \A e \in C : Better(c, e)

RECURSIVE diff_main(_, _)
diff_compute(text1, text2) ==
    IF text1 = <<>> THEN << <<DIFF_INSERT, text2>> >>
    ELSE IF text2 = <<>> THEN << <<DIFF_DELETE, text1>> >>
    ELSE LET longtext == IF Len(text1) > Len(text2) THEN text1 ELSE text2
             shorttext == IF Len(text1) > Len(text2) THEN text2 ELSE text1
             i == indexOf(longtext, shorttext)
             op == IF Len(text1) > Len(text2) THEN DIFF_DELETE ELSE DIFF_INSERT
         IN  IF i # -1
             THEN \* the shorter text is inside the longer one
                  << <<op, substring(longtext, 0, i)>>,
                     <<DIFF_EQUAL, shorttext>>,
                     <<op, substringFrom(longtext, i + Len(shorttext))>> >>
             ELSE IF Len(shorttext) = 1
             THEN << <<DIFF_DELETE, text1>>, <<DIFF_INSERT, text2>> >>
             ELSE LET c == CommonMiddle(text1, text2)
                  IN  IF c[1] = 0
                      THEN << <<DIFF_DELETE, text1>>, <<DIFF_INSERT, text2>> >>
                      ELSE diff_main(substring(text1, 0, c[2]), substring(text2, 0, c[3]))
                           \o << <<DIFF_EQUAL, substring(text1, c[2], c[2] + c[1])>> >>
                           \o diff_main(substringFrom(text1, c[2] + c[1]),
                                        substringFrom(text2, c[3] + c[1]))

diff_main(text1, text2) ==
    IF text1 = text2
    THEN IF text1 = <<>> THEN <<>> ELSE << <<DIFF_EQUAL, text1>> >>
    ELSE LET n == diff_commonPrefix(text1, text2)
             commonprefix == substring(text1, 0, n)
             r1 == substringFrom(text1, n)
             r2 == substringFrom(text2, n)
             m == diff_commonSuffix(r1, r2)
             commonsuffix == substringFrom(r1, Len(r1) - m)
             m1 == substring(r1, 0, Len(r1) - m)
             m2 == substring(r2, 0, Len(r2) - m)
         IN  diff_cleanupMerge(<< <<DIFF_EQUAL, commonprefix>> >>
                               \o diff_compute(m1, m2)
                               \o << <<DIFF_EQUAL, commonsuffix>> >>)

\* diff_text1 / diff_text2: the source and the destination text of a diff list
diff_text1(diffs) == Flatten([i \in 1..Len(diffs) |->
                        IF diffs[i][1] # DIFF_INSERT THEN diffs[i][2] ELSE <<>>])

diff_text2(diffs) == Flatten([i \in 1..Len(diffs) |->
                        IF diffs[i][1] # DIFF_DELETE THEN diffs[i][2] ELSE <<>>])


(***************************************************************************)
(* patch_make: the patch list for text1 -> text2.  A patch is a record     *)
(* [diffs, start1, start2, length1, length2]; the patches of one list have *)
(* a rolling context: each is located in the text the patches before it    *)
(* have produced.                                                          *)
(***************************************************************************)
patch_obj == [diffs |-> <<>>, start1 |-> 0, start2 |-> 0, length1 |-> 0, length2 |-> 0]

\* the padding patch_addContext_ settles on before its last increment
RECURSIVE ContextPadding(_, _, _)
ContextPadding(patch, text, padding) ==
    LET pattern == substring(text, patch.start2 - padding,
                             patch.start2 + patch.length1 + padding)
    IN  IF /\ indexOf(text, pattern) # lastIndexOf(text, pattern)
           /\ Len(pattern) < Match_MaxBits - Patch_Margin - Patch_Margin
        THEN ContextPadding(patch, text, padding + Patch_Margin)
        ELSE padding

patch_addContext(patch, text) ==
    IF text = <<>> THEN patch
    ELSE LET Framed(prefix, suffix) ==
                 [diffs |-> (IF prefix # <<>> THEN << <<DIFF_EQUAL, prefix>> >> ELSE <<>>)
                            \o patch.diffs
                            \o (IF suffix # <<>> THEN << <<DIFF_EQUAL, suffix>> >> ELSE <<>>),
                  start1 |-> patch.start1 - Len(prefix),
                  start2 |-> patch.start2 - Len(prefix),
                  length1 |-> patch.length1 + Len(prefix) + Len(suffix),
                  length2 |-> patch.length2 + Len(prefix) + Len(suffix)]
             Padded(padding) ==
                 Framed(substring(text, patch.start2 - padding, patch.start2),
                        substring(text, patch.start2 + patch.length1,
                                  patch.start2 + patch.length1 + padding))
         IN  Padded(ContextPadding(patch, text, 0) + Patch_Margin)

\* one iteration of patch_make's loop over the diffs; acc holds its locals
patch_make_step(diffs, x, acc) ==
    LET op == diffs[x][1]
        dt == diffs[x][2]
        n == Len(dt)
        patchDiffLength == Len(acc.patch.diffs)
        p0 == IF patchDiffLength = 0 /\ op # DIFF_EQUAL
              THEN [acc.patch EXCEPT !.start1 = acc.char_count1, !.start2 = acc.char_count2]
              ELSE acc.patch
        a1 == CASE op = DIFF_INSERT ->
                     [acc EXCEPT !.patch = [p0 EXCEPT !.diffs = Append(@, diffs[x]),
                                                      !.length2 = @ + n],
                                 !.postpatch = substring(@, 0, acc.char_count2) \o dt
                                               \o substringFrom(@, acc.char_count2)]
                [] op = DIFF_DELETE ->
                     [acc EXCEPT !.patch = [p0 EXCEPT !.diffs = Append(@, diffs[x]),
                                                      !.length1 = @ + n],
                                 !.postpatch = substring(@, 0, acc.char_count2)
                                               \o substringFrom(@, acc.char_count2 + n)]
                [] OTHER ->
                     IF n <= 2 * Patch_Margin /\ patchDiffLength > 0 /\ Len(diffs) # x
                     THEN \* small equality inside a patch
                          [acc EXCEPT !.patch = [p0 EXCEPT !.diffs = Append(@, diffs[x]),
                                                           !.length1 = @ + n,
                                                           !.length2 = @ + n]]
                     ELSE IF n >= 2 * Patch_Margin /\ patchDiffLength > 0
                     THEN \* time for a new patch
                          [acc EXCEPT !.patches = Append(@, patch_addContext(p0, acc.prepatch)),
                                      !.patch = patch_obj,
                                      !.prepatch = acc.postpatch,
                                      !.char_count1 = acc.char_count2]
                     ELSE [acc EXCEPT !.patch = p0]
    IN  [a1 EXCEPT !.char_count1 = IF op # DIFF_INSERT THEN @ + n ELSE @,
                   !.char_count2 = IF op # DIFF_DELETE THEN @ + n ELSE @]

RECURSIVE patch_make_loop(_, _, _)
patch_make_loop(diffs, x, acc) ==
    Having(acc,
        IF x > Len(diffs)
        THEN IF acc.patch.diffs # <<>>
             THEN Append(acc.patches, patch_addContext(acc.patch, acc.prepatch))
             ELSE acc.patches
        ELSE patch_make_loop(diffs, x + 1, patch_make_step(diffs, x, acc)))

patch_make(text1, text2) ==
    LET diffs == diff_main(text1, text2)
    IN  IF diffs = <<>> THEN <<>>
        ELSE patch_make_loop(diffs, 1,
                 [patches |-> <<>>, patch |-> patch_obj,
                  char_count1 |-> 0, char_count2 |-> 0,
                  prepatch |-> text1, postpatch |-> text1])

(***************************************************************************)
(* patch_toText / patch_fromText: the textual form of a patch list, one    *)
(* "@@ -c1 +c2 @@" header with 1-based coordinates and one signed line per *)
(* diff.  A header coordinate is <<start, 0>> for an empty span, <<start+1>>*)
(* for a span of one and <<start+1, length>> otherwise.  The empty list    *)
(* prints as the empty string.                                             *)
(***************************************************************************)
CoordsToText(start, length) ==
    IF length = 0 THEN <<start, 0>>
    ELSE IF length = 1 THEN <<start + 1>>
    ELSE <<start + 1, length>>

SignOf(op) == IF op = DIFF_INSERT THEN "+" ELSE IF op = DIFF_DELETE THEN "-" ELSE " "

OpOf(sign) == IF sign = "+" THEN DIFF_INSERT ELSE IF sign = "-" THEN DIFF_DELETE ELSE DIFF_EQUAL

patch_toText(patches) ==
    [i \in 1..Len(patches) |->
        [c1 |-> CoordsToText(patches[i].start1, patches[i].length1),
         c2 |-> CoordsToText(patches[i].start2, patches[i].length2),
         body |-> [k \in 1..Len(patches[i].diffs) |->
                      <<SignOf(patches[i].diffs[k][1]), patches[i].diffs[k][2]>>]]]

CoordStart(c) == IF Len(c) = 1 THEN c[1] - 1 ELSE IF c[2] = 0 THEN c[1] ELSE c[1] - 1

CoordLength(c) == IF Len(c) = 1 THEN 1 ELSE c[2]

patch_fromText(textline) ==
    [i \in 1..Len(textline) |->
        [diffs |-> [k \in 1..Len(textline[i].body) |->
                      <<OpOf(textline[i].body[k][1]), textline[i].body[k][2]>>],
         start1 |-> CoordStart(textline[i].c1),
         start2 |-> CoordStart(textline[i].c2),
         length1 |-> CoordLength(textline[i].c1),
         length2 |-> CoordLength(textline[i].c2)]]


(***************************************************************************)
(* invertPatch: the patch list B -> A from the forward list A -> B.        *)
(***************************************************************************)
\* a diff left as it is
KeepDiff(diff) == diff

\* an insertion made a deletion, a deletion left as it is
DropInsert(diff) == IF diff[1] = DIFF_INSERT THEN <<DIFF_DELETE, diff[2]>> ELSE diff

InvertDiff(diff) ==
    IF diff[1] = DIFF_INSERT THEN <<DIFF_DELETE, diff[2]>>
    ELSE IF diff[1] = DIFF_DELETE THEN <<DIFF_INSERT, diff[2]>>
    ELSE diff

InvertOne(patch) ==
    [diffs |-> [k \in 1..Len(patch.diffs) |-> InvertDiff(patch.diffs[k])],
     start1 |-> patch.start2,
     start2 |-> patch.start1,
     length1 |-> patch.length2,
     length2 |-> patch.length1]

invertPatch(forwardPatchList) ==
    LET reversed == Reverse(forwardPatchList)
    IN  [i \in 1..Len(reversed) |-> InvertOne(reversed[i])]

(***************************************************************************)
(* patch_apply: applies a patch list to a text, best effort.  The result   *)
(* is <<text, results>>, results[x] telling whether patch x found a place. *)
(***************************************************************************)
\* the characters of code 1..Patch_Margin, which no text holds
nullPadding == [x \in 1..Patch_Margin |-> ToString(x)]

PadStart(patch) ==
    IF patch.diffs = <<>> \/ patch.diffs[1][1] # DIFF_EQUAL
    THEN [patch EXCEPT !.diffs = << <<DIFF_EQUAL, nullPadding>> >> \o @,
                       !.start1 = @ - Patch_Margin,
                       !.start2 = @ - Patch_Margin,
                       !.length1 = @ + Patch_Margin,
                       !.length2 = @ + Patch_Margin]
    ELSE IF Patch_Margin > Len(patch.diffs[1][2])
    THEN LET extraLength == Patch_Margin - Len(patch.diffs[1][2])
         IN  [patch EXCEPT !.diffs[1] = <<DIFF_EQUAL,
                                          substringFrom(nullPadding, Len(patch.diffs[1][2]))
                                          \o patch.diffs[1][2]>>,
                           !.start1 = @ - extraLength,
                           !.start2 = @ - extraLength,
                           !.length1 = @ + extraLength,
                           !.length2 = @ + extraLength]
    ELSE patch

PadEnd(patch) ==
    LET n == Len(patch.diffs)
    IN  IF n = 0 \/ patch.diffs[n][1] # DIFF_EQUAL
        THEN [patch EXCEPT !.diffs = @ \o << <<DIFF_EQUAL, nullPadding>> >>,
                           !.length1 = @ + Patch_Margin,
                           !.length2 = @ + Patch_Margin]
        ELSE IF Patch_Margin > Len(patch.diffs[n][2])
        THEN LET extraLength == Patch_Margin - Len(patch.diffs[n][2])
             IN  [patch EXCEPT !.diffs[n] = <<DIFF_EQUAL,
                                              patch.diffs[n][2]
                                              \o substring(nullPadding, 0, extraLength)>>,
                               !.length1 = @ + extraLength,
                               !.length2 = @ + extraLength]
        ELSE patch

\* the patches bumped by the padding, the first padded at its start and the
\* last at its end
patch_addPadding(patches) ==
    LET bumped == [x \in 1..Len(patches) |->
                      [patches[x] EXCEPT !.start1 = @ + Patch_Margin,
                                         !.start2 = @ + Patch_Margin]]
        first == [bumped EXCEPT ![1] = PadStart(@)]
    IN  [first EXCEPT ![Len(patches)] = PadEnd(@)]

\* row i of the edit-distance table of pattern rp against the substrings of rt
RECURSIVE SellersRow(_, _, _, _, _)
SellersRow(prev, pch, rt, c, acc) ==
    Having(acc,
        IF c > Len(rt) THEN acc
        ELSE LET v == Min(Min(prev[c] + (IF pch = rt[c] THEN 0 ELSE 1), prev[c + 1] + 1),
                          acc[c] + 1)
             IN  SellersRow(prev, pch, rt, c + 1, Append(acc, v)))

RECURSIVE SellersRows(_, _, _, _)
SellersRows(rp, rt, i, prev) ==
    Having(prev,
        IF i > Len(rp) THEN prev
        ELSE SellersRows(rp, rt, i + 1, SellersRow(prev, rp[i], rt, 1, <<i>>)))

\* the least number of errors with which pattern matches text from offset j on
MatchErrors(text, pattern) ==
    LET rp == Reverse(pattern)
        rt == Reverse(text)
        last == SellersRows(rp, rt, 1, [c \in 1..(Len(text) + 1) |-> 0])
    IN  [j \in 0..Len(text) |-> last[Len(text) - j + 1]]

\* match_bitap: the place near loc where pattern matches text best, the
\* score of a place being errors / Len(pattern) + distance / Match_Distance,
\* at most Match_Threshold; -1 when there is none
match_bitap(text, pattern, loc) ==
    LET Best(errs) ==
            LET \* score * Len(pattern) * Match_Distance
                Score(j) == errs[j] * Match_Distance + Abs(loc - j) * Len(pattern)
                C == {j \in 0..Len(text) :
                         Match_ThresholdDen * Score(j)
                             <= Match_ThresholdNum * Len(pattern) * Match_Distance}
            IN  IF C = {} THEN -1
                ELSE CHOOSE j \in C :
                         \A k \in C : Score(j) < Score(k) \/ (Score(j) = Score(k) /\ j <= k)
    IN  Best(MatchErrors(text, pattern))

match_main(text, pattern, loc0) ==
    LET loc == Max(0, Min(loc0, Len(text)))
    IN  IF text = pattern THEN 0
        ELSE IF text = <<>> THEN -1
        ELSE IF substring(text, loc, loc + Len(pattern)) = pattern THEN loc
        ELSE match_bitap(text, pattern, loc)

\* diff_xIndex: the offset in text2 of offset loc of text1
RECURSIVE diff_xIndex_loop(_, _, _, _, _)
diff_xIndex_loop(diffs, loc, x, last_chars1, last_chars2) ==
    IF x > Len(diffs) THEN last_chars2 + (loc - last_chars1)
    ELSE LET chars1 == last_chars1 + (IF diffs[x][1] # DIFF_INSERT THEN Len(diffs[x][2]) ELSE 0)
             chars2 == last_chars2 + (IF diffs[x][1] # DIFF_DELETE THEN Len(diffs[x][2]) ELSE 0)
         IN  IF chars1 > loc
             THEN IF diffs[x][1] = DIFF_DELETE THEN last_chars2
                  ELSE last_chars2 + (loc - last_chars1)
             ELSE diff_xIndex_loop(diffs, loc, x + 1, chars1, chars2)

diff_xIndex(diffs, loc) == diff_xIndex_loop(diffs, loc, 1, 0, 0)

\* the imperfect match of patch_apply: every insertion and deletion of the
\* patch is made at the place diffs maps it to
RECURSIVE ApplyMods(_, _, _, _, _, _)
ApplyMods(mods, k, diffs, start_loc, index1, text) ==
    IF k > Len(mods) THEN text
    ELSE LET mod == mods[k]
             index2 == diff_xIndex(diffs, index1)
             t1 == IF mod[1] = DIFF_INSERT
                   THEN substring(text, 0, start_loc + index2) \o mod[2]
                        \o substringFrom(text, start_loc + index2)
                   ELSE IF mod[1] = DIFF_DELETE
                   THEN substring(text, 0, start_loc + index2)
                        \o substringFrom(text, start_loc
                                               + diff_xIndex(diffs, index1 + Len(mod[2])))
                   ELSE text
         IN  ApplyMods(mods, k + 1, diffs, start_loc,
                       IF mod[1] # DIFF_DELETE THEN index1 + Len(mod[2]) ELSE index1, t1)

\* one iteration of patch_apply's loop; acc = [text, delta, results]
patch_apply_step(patch, acc) ==
    LET expected_loc == patch.start2 + acc.delta
        Placed(text1, start_loc) ==
            IF start_loc = -1
            THEN [acc EXCEPT !.results = Append(@, FALSE),
                             !.delta = @ - (patch.length2 - patch.length1)]
            ELSE LET text2 == substring(acc.text, start_loc, start_loc + Len(text1))
                 IN  [text |-> IF text1 = text2
                               THEN substring(acc.text, 0, start_loc)
                                    \o diff_text2(patch.diffs)
                                    \o substringFrom(acc.text, start_loc + Len(text1))
                               ELSE ApplyMods(patch.diffs, 1, diff_main(text1, text2),
                                              start_loc, 0, acc.text),
                      delta |-> start_loc - expected_loc,
                      results |-> Append(acc.results, TRUE)]
        Matched(text1) == Placed(text1, match_main(acc.text, text1, expected_loc))
    IN  Matched(diff_text1(patch.diffs))

RECURSIVE patch_apply_loop(_, _, _)
patch_apply_loop(patches, x, acc) ==
    Having(acc,
        IF x > Len(patches) THEN acc
        ELSE patch_apply_loop(patches, x + 1, patch_apply_step(patches[x], acc)))

patch_apply(patches, text) ==
    IF patches = <<>> THEN <<text, <<>> >>
    ELSE LET Unpadded(done) ==
                 <<substring(done.text, Len(nullPadding), Len(done.text) - Len(nullPadding)),
                   done.results>>
         IN  Unpadded(patch_apply_loop(patch_addPadding(patches), 1,
                          [text |-> nullPadding \o text \o nullPadding,
                           delta |-> 0, results |-> <<>>]))


(***************************************************************************)
(* The extension and its collaborators.  One file is modelled; its         *)
(* fileStates entry is the index of a FileState object in objs, or 0.      *)
(* A call that is suspended at an await holds its locals in inits, pushes  *)
(* or polls and refers to its FileState by index, as its closure does.     *)
(***************************************************************************)
VARIABLES
    buffer,          \* the document's text
    editor,          \* "visible", "hidden" (open, in no visible editor) or "closed"
    fileStates,      \* the map's entry for the file: an index in objs, or 0
    objs,            \* the FileState objects created so far
    inits,           \* initializeFileState calls in flight
    pushes,          \* sendDeltaToServer calls awaiting createNodeOnServer
    polls,           \* pollAndApplyChanges calls in flight
    message,         \* what the enableTracking command last told the user
    nodes,           \* remote graph: node id n is nodes[n]
    pendingChanges,  \* changes the remote authority holds for the client
    srvPos,          \* the node the remote authority has directed the client to
    edits,           \* edits the user has made
    moves,           \* changes the remote authority has issued
    scope,           \* the bounds the exploration keeps to
    tracked,         \* files with an entry in fileStates (SpecPoller)
    cycles,          \* pollAndApplyChanges calls in flight, by file and tick
    ticks,           \* times the poller's interval has fired
    errors,          \* rejected cycles the poller has logged
    tA, tB, tPatch, tOut, tBack, tPhase   \* codec inputs and results (SpecPatch)

vars == <<buffer, editor, fileStates, objs, inits, pushes, polls, message, nodes,
          pendingChanges, srvPos, edits, moves, scope, tracked, cycles, ticks,
          errors, tA, tB, tPatch, tOut, tBack,
          tPhase>>

extVars == <<buffer, editor, fileStates, objs, inits, pushes, polls, message>>
srvVars == <<nodes, pendingChanges, srvPos>>
codecVars == <<tA, tB, tPatch, tOut, tBack, tPhase>>
envVars == <<edits, moves, scope>>
pollerVars == <<tracked, cycles, ticks, errors>>

\* the bounds of the exploration of one tracking of the file
Narrow == [states |-> MaxStates, inits |-> MaxInits, nodes |-> MaxNodes,
           edits |-> MaxEdits, moves |-> MaxMoves]

\* the bounds of the exploration of a file closed and tracked again
Wide == [states |-> WideStates, inits |-> WideInits, nodes |-> WideNodes,
         edits |-> WideEdits, moves |-> WideMoves]

\* the bounds of the exploration of two requests to track the file
Race == [states |-> RaceStates, inits |-> RaceInits, nodes |-> RaceNodes,
         edits |-> RaceEdits, moves |-> RaceMoves]

\* the poller before any file is tracked
NoPoller == tracked = {} /\ cycles = {} /\ ticks = 0 /\ errors = 0

\* the value of an optional field that is not set
Undefined == <<"undefined">>

\* parent id of a node registered under "root"
Root == 0

RemoveAt(s, k) == SubSeq(s, 1, k - 1) \o SubSeq(s, k + 1, Len(s))

\* JavaScript's !newText for an optional string
Falsy(t) == t = Undefined \/ t = <<>>

Init ==
    /\ buffer \in Texts
    /\ editor = "visible"
    /\ fileStates = 0
    /\ objs = <<>>
    /\ inits = <<>>
    /\ pushes = <<>>
    /\ polls = <<>>
    /\ message = "none"
    /\ nodes = <<>>
    /\ pendingChanges = <<>>
    /\ srvPos = Root
    /\ edits = 0 /\ moves = 0
    /\ scope = Narrow
    /\ NoPoller
    /\ tA = <<>> /\ tB = <<>> /\ tPatch = <<>> /\ tOut = <<>> /\ tBack = <<>>
    /\ tPhase = "off"

(***************************************************************************)
(* The remote authority: its graph and the changes it holds.               *)
(***************************************************************************)
\* the content of node n: the payloads from the root to n applied in turn
RECURSIVE Reconstruct(_, _)
Reconstruct(g, n) ==
    IF n = Root THEN <<>>
    ELSE IF g[n].full THEN g[n].delta
    ELSE patch_apply(patch_fromText(g[n].delta), Reconstruct(g, g[n].parent))[1]

\* POST /nodes answered 201: the node is registered
RegisterNode(parent, delta, full) ==
    /\ Len(nodes) < scope.nodes
    /\ nodes' = Append(nodes, [parent |-> parent, delta |-> delta, full |-> full])
    /\ srvPos' = Len(nodes) + 1

\* the remote authority moves the client one edge down, to child c
ServerApply(c) ==
    /\ Len(pendingChanges) < MaxChanges
    /\ ~nodes[c].full /\ nodes[c].parent = srvPos
    /\ pendingChanges' = Append(pendingChanges,
           [node_id |-> c, delta |-> nodes[c].delta, mode |-> "apply"])
    /\ srvPos' = c
    /\ moves < scope.moves /\ moves' = moves + 1
    /\ UNCHANGED <<nodes, extVars, codecVars, pollerVars, edits, scope>>

\* the remote authority moves the client one edge up: it sends the forward
\* patch of the edge under the id of the node the client is to stand on
ServerRevert ==
    /\ Len(pendingChanges) < MaxChanges
    /\ srvPos # Root /\ ~nodes[srvPos].full
    /\ pendingChanges' = Append(pendingChanges,
           [node_id |-> nodes[srvPos].parent, delta |-> nodes[srvPos].delta,
            mode |-> "revert"])
    /\ srvPos' = nodes[srvPos].parent
    /\ moves < scope.moves /\ moves' = moves + 1
    /\ UNCHANGED <<nodes, extVars, codecVars, pollerVars, edits, scope>>

\* the remote authority sends a change of a mode the client does not know
ServerOther ==
    /\ Len(pendingChanges) < MaxChanges
    /\ srvPos # Root /\ ~nodes[srvPos].full
    /\ pendingChanges' = Append(pendingChanges,
           [node_id |-> srvPos, delta |-> nodes[srvPos].delta, mode |-> "squash"])
    /\ moves < scope.moves /\ moves' = moves + 1
    /\ UNCHANGED <<nodes, srvPos, extVars, codecVars, pollerVars, edits, scope>>

(***************************************************************************)
(* The editor: the user types, shows, hides, closes and opens the file.    *)
(***************************************************************************)
\* the onDidChangeTextDocument handler, run on the objects objs with the
\* document holding text t
OnDidChange(os, t) ==
    IF fileStates = 0 THEN os
    ELSE [os EXCEPT ![fileStates].pendingDelta = t, ![fileStates].sendTimer = TRUE]

\* the document has a new version: an edit requested against the version
\* before it will not be applied
Outdate(ps) == [k \in 1..Len(ps) |->
                  IF ps[k].pc = "edit" THEN [ps[k] EXCEPT !.stale = TRUE] ELSE ps[k]]

BufferChange(t) ==
    /\ editor = "visible"
    /\ t # buffer
    /\ buffer' = t
    /\ objs' = OnDidChange(objs, t)
    /\ polls' = Outdate(polls)
    /\ edits < scope.edits /\ edits' = edits + 1
    /\ UNCHANGED <<editor, fileStates, inits, pushes, srvVars, codecVars, pollerVars, moves, scope, message>>

HideEditor ==
    /\ editor = "visible"
    /\ editor' = "hidden"
    /\ UNCHANGED <<buffer, fileStates, objs, inits, pushes, polls, srvVars, codecVars, pollerVars, envVars, message>>

ShowEditor ==
    /\ editor \in {"hidden", "closed"}
    /\ editor' = "visible"
    /\ UNCHANGED <<buffer, fileStates, objs, inits, pushes, polls, srvVars, codecVars, pollerVars, envVars, message>>

\* onDidCloseTextDocument
CloseDocument ==
    /\ editor # "closed"
    /\ editor' = "closed"
    /\ fileStates' = 0
    /\ objs' = IF fileStates = 0 THEN objs
               ELSE [objs EXCEPT ![fileStates].sendTimer = FALSE]
    /\ UNCHANGED <<buffer, inits, pushes, polls, srvVars, codecVars, pollerVars, envVars, message>>


(***************************************************************************)
(* enableTracking and initializeFileState.                                 *)
(***************************************************************************)
EnableTracking ==
    /\ editor = "visible"
    /\ fileStates = 0
    /\ Len(inits) < scope.inits
    /\ Len(objs) + Len(inits) < scope.states
    /\ inits' = Append(inits, [content |-> buffer, pc |-> "graph"])
    /\ UNCHANGED <<buffer, editor, fileStates, objs, pushes, polls, srvVars, codecVars, pollerVars, envVars, message>>

\* GET /api/graph answered 200: the initial node is posted
InitGraphOk(i) ==
    /\ inits[i].pc = "graph"
    /\ inits' = [inits EXCEPT ![i].pc = "node"]
    /\ UNCHANGED <<buffer, editor, fileStates, objs, pushes, polls, srvVars, codecVars, pollerVars, envVars, message>>

\* GET /api/graph answered otherwise, or failed: initializeFileState returns
\* and the command goes on to its 'Undo Tree Tracking enabled' message
InitGraphFail(i) ==
    /\ inits[i].pc = "graph"
    /\ inits' = RemoveAt(inits, i)
    /\ message' = "enabled"
    /\ UNCHANGED <<buffer, editor, fileStates, objs, pushes, polls, srvVars, codecVars, pollerVars, envVars>>

\* the initial node is registered: the FileState is stored
InitNodeOk(i) ==
    /\ inits[i].pc = "node"
    /\ RegisterNode(Root, inits[i].content, TRUE)
    /\ objs' = Append(objs, [content |-> inits[i].content,
                             parentNodeId |-> Len(nodes) + 1,
                             pendingDelta |-> Undefined,
                             sendTimer |-> FALSE])
    /\ fileStates' = Len(objs) + 1
    /\ inits' = RemoveAt(inits, i)
    /\ message' = "enabled"
    /\ UNCHANGED <<buffer, editor, pushes, polls, pendingChanges, codecVars, pollerVars, envVars>>

\* the initial node is not registered: initializeFileState returns and the
\* command goes on to its 'Undo Tree Tracking enabled' message
InitNodeFail(i) ==
    /\ inits[i].pc = "node"
    /\ inits' = RemoveAt(inits, i)
    /\ message' = "enabled"
    /\ UNCHANGED <<buffer, editor, fileStates, objs, pushes, polls, srvVars, codecVars, pollerVars, envVars>>

(***************************************************************************)
(* sendDeltaToServer, run when the batch timer of FileState o expires.     *)
(***************************************************************************)
\* the request sendDeltaToServer posts for FileState st; <<>> when it bails out
DeltaRequest(o, st) ==
    IF Falsy(st.pendingDelta) \/ st.pendingDelta = st.content THEN <<>>
    ELSE LET Posted(patchText) ==
                 IF patchText = <<>> THEN <<>>
                 ELSE << [obj |-> o, parent |-> st.parentNodeId,
                          patchText |-> patchText, newText |-> st.pendingDelta] >>
         IN  Posted(patch_toText(patch_make(st.content, st.pendingDelta)))

TimerFire(o) ==
    /\ objs[o].sendTimer
    /\ \E posted \in {DeltaRequest(o, objs[o])} :
          /\ Len(pushes \o posted) <= MaxPush
          /\ pushes' = pushes \o posted
    /\ objs' = [objs EXCEPT ![o].sendTimer = FALSE]
    /\ UNCHANGED <<buffer, editor, fileStates, inits, polls, srvVars, codecVars, pollerVars, envVars, message>>

\* createNodeOnServer returned the new node's id
PushOk(k) ==
    /\ RegisterNode(pushes[k].parent, pushes[k].patchText, FALSE)
    /\ objs' = [objs EXCEPT ![pushes[k].obj] =
                   [@ EXCEPT !.parentNodeId = Len(nodes) + 1,
                             !.content = pushes[k].newText,
                             !.pendingDelta = Undefined]]
    /\ pushes' = RemoveAt(pushes, k)
    /\ UNCHANGED <<buffer, editor, fileStates, inits, polls, pendingChanges, codecVars, pollerVars, envVars, message>>

\* createNodeOnServer returned null (a status other than 201) or threw
PushFail(k) ==
    /\ pushes' = RemoveAt(pushes, k)
    /\ UNCHANGED <<buffer, editor, fileStates, objs, inits, polls, srvVars, codecVars, pollerVars, envVars, message>>

(***************************************************************************)
(* pollAndApplyChanges.                                                    *)
(***************************************************************************)
\* the text a change makes of content
ChangedText(ch, content) ==
    LET forwardPatchList == patch_fromText(ch.delta)
    IN  IF ch.mode = "apply" THEN patch_apply(forwardPatchList, content)[1]
        ELSE IF ch.mode = "revert"
        THEN patch_apply(invertPatch(forwardPatchList), content)[1]
        ELSE content

\* every change taken as one the loop has a branch for
HandledAll(ch) == TRUE

\* a change of a mode the loop has a branch for
Handled(ch) == ch.mode \in {"apply", "revert"}

\* the loop over the changes from change i on, run on FileState st until it
\* awaits replaceAllText (pc "edit") or has posted the acknowledgment (pc "ack")
RECURSIVE RunLoop(_, _, _, _)
RunLoop(st, changes, i, nodeIds) ==
    IF i > Len(changes)
    THEN [st |-> st, pc |-> "ack", i |-> i, newText |-> <<>>, nodeIds |-> nodeIds]
    ELSE LET ch == changes[i]
             Body(newText) ==
                 IF ~Handled(ch)
                 THEN RunLoop(st, changes, i + 1, nodeIds)
                 ELSE IF newText # st.content /\ editor = "visible"
                 THEN [st |-> st, pc |-> "edit", i |-> i, newText |-> newText,
                       nodeIds |-> nodeIds]
                 ELSE RunLoop([st EXCEPT !.parentNodeId = ch.node_id], changes, i + 1,
                              Append(nodeIds, ch.node_id))
         IN  Body(ChangedText(ch, st.content))

\* the call of poll record p after RunLoop's result r
Resumed(p, changes, r) ==
    [obj |-> p.obj, pc |-> r.pc, changes |-> changes, i |-> r.i,
     newText |-> r.newText, nodeIds |-> r.nodeIds, stale |-> FALSE]

\* a tick of the poller
PollTick ==
    /\ fileStates # 0
    /\ Len(polls) < MaxPolls
    /\ polls' = Append(polls, [obj |-> fileStates, pc |-> "fetch", changes |-> <<>>,
                               i |-> 0, newText |-> <<>>, nodeIds |-> <<>>,
                               stale |-> FALSE])
    /\ UNCHANGED <<buffer, editor, fileStates, objs, inits, pushes, srvVars, codecVars, pollerVars, envVars, message>>

\* GET /api/poll_changes answered 200 with the changes held
PollOk(k) ==
    /\ polls[k].pc = "fetch"
    /\ IF pendingChanges = <<>>
       THEN /\ polls' = RemoveAt(polls, k)
            /\ objs' = objs
       ELSE \E r \in {RunLoop(objs[polls[k].obj], pendingChanges, 1, <<>>)} :
                /\ Len(r.newText) <= MaxText
                /\ objs' = [objs EXCEPT ![polls[k].obj] = r.st]
                /\ polls' = [polls EXCEPT ![k] = Resumed(@, pendingChanges, r)]
    /\ UNCHANGED <<buffer, editor, fileStates, inits, pushes, srvVars, codecVars, pollerVars, envVars, message>>

\* GET /api/poll_changes answered otherwise, or failed
PollFail(k) ==
    /\ polls[k].pc = "fetch"
    /\ polls' = RemoveAt(polls, k)
    /\ UNCHANGED <<buffer, editor, fileStates, objs, inits, pushes, srvVars, codecVars, pollerVars, envVars, message>>

\* replaceAllText on an editor that is no longer shown throws
EditThrows(k) ==
    /\ polls[k].pc = "edit"
    /\ editor # "visible"
    /\ polls' = RemoveAt(polls, k)
    /\ UNCHANGED <<buffer, editor, fileStates, objs, inits, pushes, srvVars, codecVars, pollerVars, envVars, message>>

\* replaceAllText returned: the edit was made, or was not because the
\* document had changed since it was requested; the loop goes on
EditDone(k) ==
    /\ polls[k].pc = "edit"
    /\ editor = "visible"
    /\ LET p == polls[k]
           applied == ~p.stale
           fired == applied /\ ~(buffer = <<>> /\ p.newText = <<>>)
           objs1 == IF fired THEN OnDidChange(objs, p.newText) ELSE objs
           st1 == [objs1[p.obj] EXCEPT !.content = p.newText,
                                       !.parentNodeId = p.changes[p.i].node_id]
           polls1 == IF fired THEN Outdate(polls) ELSE polls
       IN  \E r \in {RunLoop(st1, p.changes, p.i + 1,
                              Append(p.nodeIds, p.changes[p.i].node_id))} :
               /\ Len(r.newText) <= MaxText
               /\ buffer' = IF applied THEN p.newText ELSE buffer
               /\ objs' = [objs1 EXCEPT ![p.obj] = r.st]
               /\ polls' = [polls1 EXCEPT ![k] = Resumed(p, p.changes, r)]
    /\ UNCHANGED <<editor, fileStates, inits, pushes, srvVars, codecVars, pollerVars, envVars, message>>

\* POST /api/ack_changes answered 200: the remote authority drops the
\* acknowledged changes
AckOk(k) ==
    /\ polls[k].pc = "ack"
    /\ LET acked == {polls[k].nodeIds[n] : n \in 1..Len(polls[k].nodeIds)}
           Held(ch) == ch.node_id \notin acked
       IN  pendingChanges' = SelectSeq(pendingChanges, Held)
    /\ polls' = RemoveAt(polls, k)
    /\ UNCHANGED <<buffer, editor, fileStates, objs, inits, pushes, nodes, srvPos, codecVars, pollerVars, envVars, message>>

\* POST /api/ack_changes answered otherwise, or failed
AckFail(k) ==
    /\ polls[k].pc = "ack"
    /\ polls' = RemoveAt(polls, k)
    /\ UNCHANGED <<buffer, editor, fileStates, objs, inits, pushes, srvVars, codecVars, pollerVars, envVars, message>>

Next ==
    \/ \E t \in Texts : BufferChange(t)
    \/ HideEditor
    \/ ShowEditor
    \/ CloseDocument
    \/ EnableTracking
    \/ \E i \in 1..Len(inits) : InitGraphOk(i)
    \/ \E i \in 1..Len(inits) : InitGraphFail(i)
    \/ \E i \in 1..Len(inits) : InitNodeOk(i)
    \/ \E i \in 1..Len(inits) : InitNodeFail(i)
    \/ \E o \in 1..Len(objs) : TimerFire(o)
    \/ \E k \in 1..Len(pushes) : PushOk(k)
    \/ \E k \in 1..Len(pushes) : PushFail(k)
    \/ PollTick
    \/ \E k \in 1..Len(polls) : PollOk(k)
    \/ \E k \in 1..Len(polls) : PollFail(k)
    \/ \E k \in 1..Len(polls) : EditThrows(k)
    \/ \E k \in 1..Len(polls) : EditDone(k)
    \/ \E k \in 1..Len(polls) : AckOk(k)
    \/ \E k \in 1..Len(polls) : AckFail(k)
    \/ \E c \in 1..Len(nodes) : ServerApply(c)
    \/ ServerRevert
    \/ ServerOther

Spec == Init /\ [][Next]_vars

\* the same program where the closed file is opened and tracked again
Fresh(bounds) ==
    /\ buffer \in Texts
    /\ editor = "visible"
    /\ fileStates = 0
    /\ objs = <<>>
    /\ inits = <<>>
    /\ pushes = <<>>
    /\ polls = <<>>
    /\ message = "none"
    /\ nodes = <<>>
    /\ pendingChanges = <<>>
    /\ srvPos = Root
    /\ edits = 0 /\ moves = 0
    /\ scope = bounds
    /\ NoPoller
    /\ tA = <<>> /\ tB = <<>> /\ tPatch = <<>> /\ tOut = <<>> /\ tBack = <<>>
    /\ tPhase = "off"

InitReopen == Fresh(Wide)

SpecReopen == InitReopen /\ [][Next]_vars

\* the same program where tracking is requested while it is being enabled
InitRace == Fresh(Race)

SpecRace == InitRace /\ [][Next]_vars

(***************************************************************************)
(* Properties of the extension, checked under Spec.                        *)
(***************************************************************************)
\* the patch list pollAndApplyChanges applies for change ch
ChangePatches(ch) ==
    IF ch.mode = "revert" THEN invertPatch(patch_fromText(ch.delta))
    ELSE patch_fromText(ch.delta)

\* every patch of the list, from patch x on, finds exactly the text it was
\* made for at the place it was made for
RECURSIVE CleanMatch(_, _, _)
CleanMatch(patches, x, text) ==
    IF x > Len(patches) THEN TRUE
    ELSE LET p == patches[x]
             end == p.start2 + p.length1
         IN  /\ end <= Len(text)
             /\ substring(text, p.start2, end) = diff_text1(p.diffs)
             /\ CleanMatch(patches, x + 1,
                    substring(text, 0, p.start2) \o diff_text2(p.diffs)
                        \o substringFrom(text, end))

\* the changes of a known mode
Known(changes) == SelectSeq(changes, LAMBDA ch : ch.mode \in {"apply", "revert"})

Ids(changes) == [n \in 1..Len(changes) |-> changes[n].node_id]

\* the text the changes from change i on make of content, applied in turn
RECURSIVE Fold(_, _, _)
Fold(changes, i, content) ==
    IF i > Len(changes) THEN content
    ELSE Fold(changes, i + 1, ChangedText(changes[i], content))

\* a text that is there and differs from content
Differs(st) == st.pendingDelta # Undefined /\ st.pendingDelta # st.content

\* C1: every change notification of a batch window replaces the pending text
\* and leaves one batch timer scheduled without pushing, and the expiry of
\* the window issues exactly one push, which carries diff(content, last text).
CoalescedPush ==
    [][ /\ \A t \in Texts : BufferChange(t) /\ fileStates # 0 =>
              /\ pushes' = pushes
              /\ objs'[fileStates].pendingDelta = t
              /\ objs'[fileStates].sendTimer
        /\ \A o \in 1..Len(objs) : TimerFire(o) /\ Differs(objs[o]) =>
              /\ Len(pushes') = Len(pushes) + 1
              /\ pushes'[Len(pushes')].patchText =
                     patch_toText(patch_make(objs[o].content, objs[o].pendingDelta))
      ]_vars

\* C2: at most one push of the file is in flight at any time.
OnePushInFlight == Len(pushes) <= 1

\* C3: while the file is tracked and no pending text is held, content is the
\* text of the editor buffer.
ContentIsBuffer ==
    fileStates # 0 /\ objs[fileStates].pendingDelta = Undefined =>
        objs[fileStates].content = buffer

\* C4: while the file is tracked, content is the text reconstructed for
\* parentNodeId in the remote graph.
ContentIsNode ==
    fileStates # 0 =>
        objs[fileStates].content = Reconstruct(nodes, objs[fileStates].parentNodeId)

\* C5: a push that fails changes nothing of the FileState, and the batch
\* timer scheduled at that moment, if the pending text differs from content,
\* pushes diff(content, pending text) under the same parent when it expires.
FailedPushRetried ==
    [][ \A k \in 1..Len(pushes) : PushFail(k) =>
          /\ objs' = objs
          /\ \A o \in 1..Len(objs) : objs[o].sendTimer /\ Differs(objs[o]) =>
                DeltaRequest(o, objs[o]) =
                    << [obj |-> o, parent |-> objs[o].parentNodeId,
                        patchText |-> patch_toText(patch_make(objs[o].content,
                                                              objs[o].pendingDelta)),
                        newText |-> objs[o].pendingDelta] >>
      ]_vars

\* C6: a received change whose patch list does not find its text in content
\* is skipped: the FileState stays as it was and the change's node is not
\* acknowledged.
MismatchSkipped ==
    [][ \A k \in 1..Len(polls) :
          /\ PollOk(k)
          /\ Len(pendingChanges) = 1
          /\ pendingChanges[1].mode \in {"apply", "revert"}
          /\ ~CleanMatch(ChangePatches(pendingChanges[1]), 1, objs[polls[k].obj].content)
          => /\ objs' = objs
             /\ polls'[k].pc = "ack"
             /\ polls'[k].nodeIds = <<>>
      ]_vars

\* C7: when a poll cycle posts its acknowledgment, content is what the
\* received changes make of it applied in the order received, the
\* acknowledgment lists the nodes of the changes of a known mode in that
\* order, and parentNodeId is the last of them.
BatchInOrder ==
    [][ \A k \in 1..Len(polls) :
          /\ (PollOk(k) /\ pendingChanges # <<>> /\ polls'[k].pc = "ack" =>
                LET o == polls[k].obj
                    ids == Ids(Known(pendingChanges))
                IN  /\ objs'[o].content = Fold(pendingChanges, 1, objs[o].content)
                    /\ polls'[k].nodeIds = ids
                    /\ ids # <<>> => objs'[o].parentNodeId = ids[Len(ids)])
          /\ (EditDone(k) /\ polls'[k].pc = "ack" =>
                LET p == polls[k]
                    ids == Ids(Known(p.changes))
                IN  /\ objs'[p.obj].content = Fold(p.changes, p.i + 1, p.newText)
                    /\ polls'[k].nodeIds = ids
                    /\ objs'[p.obj].parentNodeId = ids[Len(ids)])
      ]_vars

\* C8: a revert change {n, patch A -> B} received while content is B either
\* waits for the editor with the FileState as it was, or has made content A
\* and parentNodeId n: parentNodeId is never n while content is still B.
RevertTogether ==
    [][ \A k \in 1..Len(polls) :
          /\ PollOk(k)
          /\ Len(pendingChanges) = 1
          /\ pendingChanges[1].mode = "revert"
          /\ CleanMatch(ChangePatches(pendingChanges[1]), 1, objs[polls[k].obj].content)
          => LET o == polls[k].obj
                 ch == pendingChanges[1]
             IN  \/ polls'[k].pc = "edit" /\ objs' = objs
                 \/ /\ objs'[o].content = ChangedText(ch, objs[o].content)
                    /\ objs'[o].parentNodeId = ch.node_id
      ]_vars

\* C9: the expiry of the batch timer posts nothing when the pending text is
\* absent or equal to content, and otherwise posts diff(content, pending
\* text) under parentNodeId; when the post succeeds content is the text that
\* was pushed, parentNodeId the new node and the pending text is cleared.
ExpiryPushes ==
    [][ /\ \A o \in 1..Len(objs) : TimerFire(o) =>
              IF Differs(objs[o])
              THEN pushes' = Append(pushes,
                       [obj |-> o, parent |-> objs[o].parentNodeId,
                        patchText |-> patch_toText(patch_make(objs[o].content,
                                                              objs[o].pendingDelta)),
                        newText |-> objs[o].pendingDelta])
              ELSE pushes' = pushes
        /\ \A k \in 1..Len(pushes) : PushOk(k) =>
              LET o == pushes[k].obj
              IN  /\ objs'[o].content = pushes[k].newText
                  /\ objs'[o].parentNodeId = Len(nodes')
                  /\ objs'[o].pendingDelta = Undefined
      ]_vars

(***************************************************************************)
(* The codec on its own: a pair of snapshots is diffed and serialised as   *)
(* sendDeltaToServer does, then parsed, inverted and applied as a revert   *)
(* change is in pollAndApplyChanges.                                       *)
(***************************************************************************)
\* an unchanged stretch long enough to separate two hunks
Mid == <<"c", "d", "e", "f", "g", "h", "i", "j", "k">>

Edges == TextsUpTo(MaxEdge)

PatchTexts == Texts \cup {l \o Mid \o r : l \in Edges, r \in Edges}

Idle ==
    /\ editor = "visible" /\ fileStates = 0
    /\ objs = <<>> /\ inits = <<>> /\ pushes = <<>> /\ polls = <<>>
    /\ message = "none"
    /\ nodes = <<>> /\ pendingChanges = <<>> /\ srvPos = Root
    /\ edits = 0 /\ moves = 0
    /\ scope = Narrow
    /\ NoPoller

InitPatch ==
    /\ Idle
    /\ tA \in PatchTexts /\ tB \in PatchTexts
    /\ buffer = tA
    /\ tPatch = <<>> /\ tOut = <<>> /\ tBack = <<>> /\ tPhase = "input"

\* patch_make and patch_toText of sendDeltaToServer
MakePatch ==
    /\ tPhase = "input"
    /\ tPatch' = patch_toText(patch_make(tA, tB))
    /\ tPhase' = "made"
    /\ UNCHANGED <<tA, tB, tOut, tBack, extVars, srvVars, envVars, pollerVars>>

\* the revert branch of pollAndApplyChanges on content tB
InvertApply ==
    /\ tPhase = "made"
    /\ tOut' = patch_apply(invertPatch(patch_fromText(tPatch)), tB)[1]
    /\ tBack' = invertPatch(invertPatch(patch_fromText(tPatch)))
    /\ tPhase' = "done"
    /\ UNCHANGED <<tA, tB, tPatch, extVars, srvVars, envVars, pollerVars>>

NextPatch == MakePatch \/ InvertApply

SpecPatch == InitPatch /\ [][NextPatch]_vars

(***************************************************************************)
(* The poller over several files.  Each file's cycle is kept as the file   *)
(* and the tick that started it; what the cycle does to its FileState is   *)
(* in PollOk .. AckFail above.                                             *)
(***************************************************************************)
Files == 1..MaxFiles

\* a rejection taking the other cycles of its tick with it
AfterRejectionOfTick(cs, c) == {d \in cs : d.tick # c.tick}

\* the cycles left in flight when cycle c is rejected: the catch of the
\* poller's callback belongs to the promise of c alone
AfterRejection(cs, c) == cs \ {c}

\* initializeFileState stores a FileState for file f
Stored(f) ==
    /\ f \notin tracked
    /\ tracked' = tracked \cup {f}
    /\ UNCHANGED <<cycles, ticks, errors, extVars, srvVars, envVars, codecVars>>

\* onDidCloseTextDocument of file f
Closed(f) ==
    /\ f \in tracked
    /\ tracked' = tracked \ {f}
    /\ UNCHANGED <<cycles, ticks, errors, extVars, srvVars, envVars, codecVars>>

\* the interval fires: a cycle is started for every value of fileStates
IntervalFires ==
    /\ ticks < MaxTicks
    /\ ticks' = ticks + 1
    /\ cycles' = cycles \cup {[file |-> f, tick |-> ticks + 1] : f \in tracked}
    /\ UNCHANGED <<tracked, errors, extVars, srvVars, envVars, codecVars>>

\* a cycle ends without throwing
CycleEnds(c) ==
    /\ cycles' = cycles \ {c}
    /\ UNCHANGED <<tracked, ticks, errors, extVars, srvVars, envVars, codecVars>>

\* a cycle throws: its promise is rejected and the catch logs the error
CycleThrows(c) ==
    /\ errors < MaxErrors
    /\ errors' = errors + 1
    /\ cycles' = AfterRejection(cycles, c)
    /\ UNCHANGED <<tracked, ticks, extVars, srvVars, envVars, codecVars>>

InitPoller ==
    /\ Idle
    /\ buffer = <<>>
    /\ tA = <<>> /\ tB = <<>> /\ tPatch = <<>> /\ tOut = <<>> /\ tBack = <<>>
    /\ tPhase = "off"

NextPoller ==
    \/ \E f \in Files : Stored(f)
    \/ \E f \in Files : Closed(f)
    \/ IntervalFires
    \/ \E c \in cycles : CycleEnds(c)
    \/ \E c \in cycles : CycleThrows(c)

SpecPoller == InitPoller /\ [][NextPoller]_vars

\* C10: for every pair of snapshots (A, B), applying the inversion of the
\* serialised patch diff(A, B) to B gives A again, whatever the number of
\* hunks and however their insertions and deletions change the length.
InversionCorrect == tPhase = "done" => tOut = tA

\* a patch of two hunks, the first of which changes the length of the text,
\* has been inverted and applied
InversionWitness ==
    /\ tPhase = "done"
    /\ Len(patch_fromText(tPatch)) >= 2
    /\ patch_fromText(tPatch)[1].length1 # patch_fromText(tPatch)[1].length2
    /\ Len(tA) # Len(tB)
    /\ tOut = tA

EmptyInversionWitness ==
    /\ tPhase = "done"
    /\ tA = tB
    /\ tBack = <<>>

\* C12: a change delivered again after its acknowledgment failed, while the
\* FileState already stands on its node with that node's content, leaves
\* content as it is: no edit of the buffer is requested for it.
RedeliveryIdempotent ==
    [][ \A k \in 1..Len(polls) :
          /\ PollOk(k)
          /\ Len(pendingChanges) = 1
          /\ pendingChanges[1].mode \in {"apply", "revert"}
          /\ objs[polls[k].obj].parentNodeId = pendingChanges[1].node_id
          /\ objs[polls[k].obj].content = Reconstruct(nodes, pendingChanges[1].node_id)
          => /\ polls'[k].pc = "ack"
             /\ objs'[polls[k].obj].content = objs[polls[k].obj].content
      ]_vars

\* C13: a change of a mode other than apply and revert is passed over: the
\* nodes a poll cycle has collected for its acknowledgment are those of the
\* changes of a known mode it has gone through, in order; the cycle goes on
\* to the changes after it; and a poll step that goes through changes of
\* other modes only leaves the FileState as it was.
UnknownModeSkipped ==
    [][ \A k \in 1..Len(polls) :
          PollOk(k) /\ pendingChanges # <<>> =>
              LET rec == polls'[k]
                  upto == IF rec.pc = "ack" THEN Len(pendingChanges) ELSE rec.i - 1
                  seen == SubSeq(pendingChanges, 1, upto)
              IN  /\ rec.nodeIds = Ids(Known(seen))
                  /\ rec.pc = "edit" => rec.changes[rec.i].mode \in {"apply", "revert"}
                  /\ Known(seen) = <<>> => objs' = objs
      ]_vars

\* a cycle has passed over a change of another mode and gone on to process
\* and collect the revert change after it
UnknownModeWitness ==
    \E k \in 1..Len(polls) :
        /\ polls[k].pc = "ack"
        /\ Len(polls[k].changes) = 2
        /\ polls[k].changes[1].mode = "squash"
        /\ polls[k].changes[2].mode = "revert"
        /\ polls[k].nodeIds = <<polls[k].changes[2].node_id>>
        /\ objs[polls[k].obj].parentNodeId = polls[k].changes[2].node_id

\* C14: an initialization that fails, at the graph request or at the
\* registration of the initial node, stores no FileState and is not reported
\* to the user as tracking enabled.
InitFailureReported ==
    [][ \A i \in 1..Len(inits) :
          InitGraphFail(i) \/ InitNodeFail(i) =>
              /\ fileStates' = 0
              /\ message' # "enabled"
      ]_vars

\* C15: closing the file leaves no timer armed on the FileState it removes
\* and no push is posted later for a FileState that is not the one stored;
\* a push or a poll cycle of a removed FileState that ends after the close
\* changes neither the entry stored for the file nor the FileState of a
\* later tracking of the file.
CloseDiscards ==
    [][ /\ CloseDocument /\ fileStates # 0 => ~objs'[fileStates].sendTimer
        /\ \A o \in 1..Len(objs) :
              TimerFire(o) /\ pushes' # pushes => o = fileStates
        /\ \A k \in 1..Len(pushes) :
              /\ Len(pushes') < Len(pushes)
              /\ PushOk(k) \/ PushFail(k)
              /\ pushes[k].obj # fileStates
              =>
                  /\ fileStates' = fileStates
                  /\ fileStates # 0 => objs'[fileStates] = objs[fileStates]
        /\ \A k \in 1..Len(polls) :
              /\ polls' # polls
              /\ polls[k].obj # fileStates
              /\ PollOk(k) \/ PollFail(k) \/ EditThrows(k) \/ EditDone(k)
                    \/ AckOk(k) \/ AckFail(k)
              => /\ fileStates' = fileStates
                 /\ fileStates # 0 => objs'[fileStates] = objs[fileStates]
      ]_vars

\* C16: while a poll cycle of a FileState is in progress, no other poll
\* cycle and no push of the same FileState is in progress.
CyclesExclusive ==
    \A k \in 1..Len(polls) :
        /\ \A j \in 1..Len(polls) : j # k => polls[j].obj # polls[k].obj
        /\ \A p \in 1..Len(pushes) : pushes[p].obj # polls[k].obj

\* C17: every tick starts a cycle for every tracked file and leaves the
\* cycles in flight alone, also after cycles have failed; a failing cycle
\* takes no other cycle with it and changes neither the tracked files nor
\* the poller; a file stored or closed leaves the cycles in flight alone
\* and logs no error.
PollerIsolation ==
    [][ /\ ticks' # ticks =>
              /\ \A f \in tracked : [file |-> f, tick |-> ticks'] \in cycles'
              /\ cycles \subseteq cycles'
        /\ errors' # errors =>
              /\ \E c \in cycles : cycles' = cycles \ {c}
              /\ tracked' = tracked /\ ticks' = ticks
        /\ tracked' # tracked => cycles' = cycles /\ errors' = errors
      ]_vars

\* a cycle of the first tick has failed while the other file's cycle of that
\* tick is still in flight, and the second tick has polled both files
PollerIsolationWitness ==
    \E f \in tracked, g \in tracked :
        /\ f # g
        /\ errors = 1 /\ ticks = 2
        /\ [file |-> f, tick |-> 1] \notin cycles
        /\ [file |-> g, tick |-> 1] \in cycles
        /\ [file |-> f, tick |-> 2] \in cycles
        /\ [file |-> g, tick |-> 2] \in cycles

\* C18: when a push of the stored FileState of an open file fails while the
\* buffer is the pending text and differs from content, and no other push,
\* no poll cycle and no remote change is under way, the push is scheduled
\* again: the batch timer is armed without another edit of the user.
RetryUnprompted ==
    [][ \A k \in 1..Len(pushes) :
          /\ PushFail(k)
          /\ pushes[k].obj = fileStates
          /\ editor # "closed"
          /\ pushes' = <<>> /\ polls = <<>> /\ pendingChanges = <<>>
          /\ objs[fileStates].pendingDelta = buffer
          /\ buffer # objs[fileStates].content
          => objs'[fileStates].sendTimer
      ]_vars

\* C19: whatever requests to track the file are made, an initialization
\* registers its full-snapshot node and stores its FileState only while no
\* FileState is stored for the file, so that one node and one FileState at
\* most come of the requests made before the file is closed.
SingleInitialization ==
    [][ \A i \in 1..Len(inits) :
          /\ Len(inits') < Len(inits) /\ Len(nodes') > Len(nodes)
          /\ InitNodeOk(i)
          => fileStates = 0
      ]_vars

\* C20: when a poll cycle has replaced the buffer by the text of a remote
\* change, the expiry of the batch timer the replacement armed posts nothing
\* for the stored FileState, and the FileState of the cycle holds the
\* buffer as content and, if a pending text is present, as pending text.
NoEcho ==
    [][ \A k \in 1..Len(polls) :
          /\ polls[k].pc = "edit" /\ ~polls[k].stale
          /\ EditDone(k)
          /\ fileStates # 0
          => /\ DeltaRequest(fileStates, objs'[fileStates]) = <<>>
             /\ objs'[polls[k].obj].content = buffer'
             /\ objs'[polls[k].obj].pendingDelta \in {Undefined, buffer'}
      ]_vars

=============================================================================
